---- MODULE Spec2Model ----
(***************************************************************************)
(* Model of strong-sync.py: the Strong CSV -> Notion synchronisation.      *)
(*                                                                         *)
(* Representation of the CSV's text fields:                                *)
(*   - an optional numeric column (Weight, Reps, Distance, Seconds) is     *)
(*     <<>> when the cell is the empty string and <<n>> when it holds a    *)
(*     number, so Python's truthiness test `if ex["reps"]` is `# <<>>`;    *)
(*   - Weight (kg) is counted in quarters of a kilogram (<<245>> is the    *)
(*     cell "61.25"): every such value, product and sum is exact in binary *)
(*     floating point, so float arithmetic and round() are modelled        *)
(*     exactly;                                                            *)
(*   - Date "YYYY-MM-DD HH:MM:SS" is <<day, second of the day>>.           *)
(***************************************************************************)
EXTENDS Integers, Sequences, FiniteSets, TLC

VARIABLES
    cfg,              \* environment: which configuration values are set
    csv_rows,         \* the rows of the CSV file at csv_path
    pages,            \* remote: the pages of the activities database
    entries,          \* remote: the rows of the exercise progress database
    faults,           \* remote calls that may still raise
    pc,               \* position of the process
    rebuild,          \* args.rebuild of the running process
    exercise_db_id,   \* main's exercise_db_id ("" is None)
    workouts,         \* main's parsed workouts, in insertion order
    wi,               \* index in workouts of the loop's current workout
    existing,         \* page id returned by workout_exists (0 is None)
    page,             \* create_workout_page: id of the created page
    listing,          \* replace_page_content's `existing` list response
    gi,               \* sync_exercise_entries: index of the current group
    properties,       \* sync_exercise_entries: the properties being written
    existing_entry,   \* sync_exercise_entries: `existing` (0 is None)
    created,          \* main's counters
    updated,
    skipped,
    exit_status,      \* exit status of the last process (-1 while running)
    printed,          \* the kind of the last message printed by main
    last_call,        \* history: the last remote call of this process
    run_log           \* history: facts about this and the previous process

vars == <<cfg, csv_rows, pages, entries, faults, pc, rebuild, exercise_db_id,
          workouts, wi, existing, page, listing, gi, properties,
          existing_entry, created, updated, skipped, exit_status, printed,
          last_call, run_log>>

-----------------------------------------------------------------------------
(* Bounds of the model *)

MaxFaults == 2
MaxOldBlocks == 2
PageSize == 1
MaxParseRows == 3
MaxAggRows == 2

-----------------------------------------------------------------------------
(* Generic helpers *)

Range(s) == {s[i] : i \in 1..Len(s)}

SeqsUpTo(S, n) == UNION {[1..k -> S] : k \in 0..n}

Max(a, b) == IF a >= b THEN a ELSE b

-----------------------------------------------------------------------------
(* parse_csv *)

ExerciseOf(row) ==
    [exercise |-> row.ExerciseName, set_order |-> row.SetOrder,
     weight_kg |-> row.Weight, reps |-> row.Reps,
     distance_m |-> row.Distance, seconds |-> row.Seconds,
     notes |-> row.Notes]

IndexOfDate(ws, date) ==
    IF \E i \in 1..Len(ws) : ws[i].date = date
    THEN CHOOSE i \in 1..Len(ws) : ws[i].date = date
    ELSE 0

\* parse_row without the rest-timer test
parse_row_with_rest_timers(ws, row) ==
    LET opened == IF IndexOfDate(ws, row.Date) = 0
                  THEN Append(ws, [date |-> row.Date,
                                   name |-> row.WorkoutName,
                                   duration_sec |-> row.Duration,
                                   exercises |-> <<>>])
                  ELSE ws
        i == IndexOfDate(opened, row.Date)
    IN [opened EXCEPT ![i].exercises = Append(@, ExerciseOf(row))]

parse_row(ws, row) ==
    IF row.SetOrder = "Rest Timer" THEN ws
    ELSE LET opened == IF IndexOfDate(ws, row.Date) = 0
                       THEN Append(ws, [date |-> row.Date,
                                        name |-> row.WorkoutName,
                                        duration_sec |-> row.Duration,
                                        exercises |-> <<>>])
                       ELSE ws
             i == IndexOfDate(opened, row.Date)
         IN [opened EXCEPT ![i].exercises = Append(@, ExerciseOf(row))]

RECURSIVE parse_rows(_, _)
parse_rows(ws, rows) ==
    IF rows = <<>> THEN ws
    ELSE parse_rows(parse_row(ws, Head(rows)), Tail(rows))

parse_csv(rows) == parse_rows(<<>>, rows)

-----------------------------------------------------------------------------
(* group_exercises *)

IndexOfGroup(groups, name) ==
    IF \E i \in 1..Len(groups) : groups[i].name = name
    THEN CHOOSE i \in 1..Len(groups) : groups[i].name = name
    ELSE 0

group_exercise(groups, ex) ==
    LET opened == IF IndexOfGroup(groups, ex.exercise) = 0
                  THEN Append(groups, [name |-> ex.exercise,
                                       sets |-> <<>>, notes |-> <<>>])
                  ELSE groups
        i == IndexOfGroup(opened, ex.exercise)
    IN IF ex.set_order = "Note"
       THEN [opened EXCEPT ![i].notes = Append(@, ex.notes)]
       ELSE [opened EXCEPT ![i].sets = Append(@, ex)]

RECURSIVE group_rows(_, _)
group_rows(groups, exercises) ==
    IF exercises = <<>> THEN groups
    ELSE group_rows(group_exercise(groups, Head(exercises)), Tail(exercises))

group_exercises(exercises) == group_rows(<<>>, exercises)

-----------------------------------------------------------------------------
(* format_time, format_set, build_page_content *)

Pad2(n) == IF n < 10 THEN "0" \o ToString(n) ELSE ToString(n)

format_time(total_seconds) ==
    LET hours == total_seconds \div 3600
        minutes == (total_seconds % 3600) \div 60
        seconds == total_seconds % 60
    IN IF hours > 0
       THEN ToString(hours) \o ":" \o Pad2(minutes) \o ":" \o Pad2(seconds)
       ELSE ToString(minutes) \o ":" \o Pad2(seconds)

\* f"{distance_km:.2f} km" for a distance in metres that is no tie (m % 10 # 5)
FormatKm(m) ==
    LET centi == (m + 5) \div 10
    IN ToString(centi \div 100) \o "." \o Pad2(centi % 100) \o " km"

\* f"{weight:g}" for a weight in quarters of a kilogram, below 10000 kg
FormatG(q) ==
    ToString(q \div 4) \o
    (CASE q % 4 = 0 -> "" [] q % 4 = 1 -> ".25" [] q % 4 = 2 -> ".5"
       [] OTHER -> ".75")

format_set(ex) ==
    IF ex.distance_m # <<>>
    THEN <<FormatKm(ex.distance_m[1]),
           IF ex.seconds # <<>> THEN format_time(ex.seconds[1]) ELSE "">>
    ELSE IF ex.seconds # <<>> /\ ex.weight_kg = <<>>
    THEN <<"", format_time(ex.seconds[1])>>
    ELSE LET weight == IF ex.weight_kg # <<>> THEN ex.weight_kg[1] ELSE 0
         IN <<IF weight = 0 THEN "BW" ELSE FormatG(weight),
              IF ex.reps # <<>> THEN ToString(ex.reps[1]) ELSE "">>

TableRow(s) == <<s.set_order, format_set(s)[1], format_set(s)[2]>>

GroupBlocks(groups, i) ==
    <<[type |-> "heading_3", text |-> groups[i].name]>>
    \o [k \in 1..Len(groups[i].notes) |->
          [type |-> "paragraph", text |-> groups[i].notes[k], italic |-> TRUE]]
    \o (IF groups[i].sets # <<>>
        THEN <<[type |-> "table", table_width |-> 3,
                has_column_header |-> TRUE,
                children |-> <<<<"Set", "Weight (kg)", "Reps">>>>
                             \o [k \in 1..Len(groups[i].sets) |->
                                   TableRow(groups[i].sets[k])]]>>
        ELSE <<>>)
    \o (IF i < Len(groups) THEN <<[type |-> "divider"]>> ELSE <<>>)

RECURSIVE BlocksFrom(_, _)
BlocksFrom(groups, i) ==
    IF i > Len(groups) THEN <<>>
    ELSE GroupBlocks(groups, i) \o BlocksFrom(groups, i + 1)

build_page_content(exercises) == BlocksFrom(group_exercises(exercises), 1)

-----------------------------------------------------------------------------
(* make_workout_dates and the stable id *)

make_workout_dates(workout) ==
    LET total == workout.date[2] + workout.duration_sec
    IN [start |-> workout.date,
        end |-> <<workout.date[1] + total \div 86400, total % 86400>>]

\* start_dt.strftime("%Y-%m-%d")
DateOnly(date) == date[1]

strong_id(date) == <<"strong-", date>>

-----------------------------------------------------------------------------
(* sync_exercise_entries: the statistics of one exercise group *)

\* rounding with ties away from zero instead of to the even digit
round1_half_up(q) ==
    10 * (q \div 4) +
    (CASE q % 4 = 0 -> 0 [] q % 4 = 1 -> 3 [] q % 4 = 2 -> 5 [] OTHER -> 8)

\* round(total_volume, 1) of a volume in quarters of a kilogram, in tenths of
\* a kilogram: x.25 and x.75 are exact ties and go to the even digit
round1(q) ==
    10 * (q \div 4) +
    (CASE q % 4 = 0 -> 0 [] q % 4 = 1 -> 2 [] q % 4 = 2 -> 5 [] OTHER -> 8)

set_weight(s) == IF s.weight_kg # <<>> THEN s.weight_kg[1] ELSE 0

set_reps(s) == IF s.reps # <<>> THEN s.reps[1] ELSE 0

RECURSIVE max_weight(_)
max_weight(sets) ==
    IF sets = <<>> THEN 0
    ELSE Max(max_weight(SubSeq(sets, 1, Len(sets) - 1)),
             set_weight(sets[Len(sets)]))

RECURSIVE total_volume(_)
total_volume(sets) ==
    IF sets = <<>> THEN 0
    ELSE total_volume(Tail(sets)) + set_weight(Head(sets)) * set_reps(Head(sets))

RECURSIVE total_reps(_)
total_reps(sets) ==
    IF sets = <<>> THEN 0
    ELSE total_reps(Tail(sets)) + set_reps(Head(sets))

entry_properties(workout, data) ==
    [Exercise |-> data.name,
     Date |-> make_workout_dates(workout).start,
     MaxWeight |-> max_weight(data.sets),
     TotalVolume |-> round1(total_volume(data.sets)),
     Sets |-> Len(data.sets),
     TotalReps |-> total_reps(data.sets),
     Workouts |-> workout.name]

\* the first group at index `from` or later that has sets (0: none), i.e.
\* the loop's `if not sets: continue`
next_group(groups, from) ==
    IF \E i \in from..Len(groups) : groups[i].sets # <<>>
    THEN CHOOSE i \in from..Len(groups) :
             /\ groups[i].sets # <<>>
             /\ \A j \in from..(i - 1) : groups[j].sets = <<>>
    ELSE 0

-----------------------------------------------------------------------------
(* The remote store: pages of the activities database and their blocks *)

\* a page created without the "Garmin ID" property
new_page_untagged(workout) ==
    [title |-> workout.name,
     date |-> make_workout_dates(workout),
     activity_type |-> "Strength",
     duration_min |-> (10 * workout.duration_sec + 3) \div 6,
     garmin_id |-> {},
     children |-> <<>>]

\* "Duration (min)" is round(duration_sec / 60, 2), here in hundredths of a
\* minute (no duration is a tie)
new_page(workout) ==
    [title |-> workout.name,
     date |-> make_workout_dates(workout),
     activity_type |-> "Strength",
     duration_min |-> (10 * workout.duration_sec + 3) \div 6,
     garmin_id |-> {strong_id(workout.date)},
     children |-> <<>>]

MaxId(children) ==
    IF children = <<>> THEN 0
    ELSE CHOOSE m \in {children[i].id : i \in 1..Len(children)} :
             \A i \in 1..Len(children) : children[i].id <= m

\* blocks.children.append: the blocks go after the page's children, each with
\* an id no live block of the page has
append_children(children, blocks) ==
    children \o [k \in 1..Len(blocks) |->
                   [id |-> MaxId(children) + k, block |-> blocks[k]]]

\* a delete that leaves the block among the children
delete_block_keeps(children, id) == children

\* blocks.delete
delete_block(children, id) ==
    SelectSeq(children, LAMBDA c : c.id # id)

\* blocks.children.list: one page of at most PageSize children, from the
\* start or from the block the cursor names
list_children(children, cursor) ==
    LET start == IF cursor = 0 THEN 1
                 ELSE CHOOSE i \in 1..Len(children) : children[i].id = cursor
        stop == IF start + PageSize - 1 < Len(children)
                THEN start + PageSize - 1 ELSE Len(children)
    IN [results |-> [k \in 1..(stop - start + 1) |-> children[start + k - 1].id],
        has_more |-> stop < Len(children),
        next_cursor |-> IF stop < Len(children) THEN children[stop + 1].id
                        ELSE 0]

Blocks(children) == [k \in 1..Len(children) |-> children[k].block]

\* databases.query with the multi_select "contains" filter of workout_exists
query_workouts(ps, date) ==
    {p \in 1..Len(ps) : strong_id(date) \in ps[p].garmin_id}

\* databases.query with the filter of exercise_entry_exists
query_entries(es, date_only, exercise_name) ==
    {e \in 1..Len(es) : /\ es[e].Exercise = exercise_name
                        /\ DateOnly(es[e].Date) = date_only}

-----------------------------------------------------------------------------
(* The inputs: configurations, CSV files, and the remote store at the start *)

Row(date, name, duration, exercise, set_order, weight, reps, distance, seconds, notes) ==
    [Date |-> date, WorkoutName |-> name, Duration |-> duration,
     ExerciseName |-> exercise, SetOrder |-> set_order, Weight |-> weight,
     Reps |-> reps, Distance |-> distance, Seconds |-> seconds,
     Notes |-> notes]

Morning == <<1, 28800>>    \* "2024-01-01 08:00:00"
Evening == <<1, 64800>>    \* "2024-01-01 18:00:00"
NextDay == <<2, 28800>>    \* "2024-01-02 08:00:00"

SquatSet == Row(Morning, "Morning", 3600, "Squat", "1", <<245>>, <<3>>, <<>>, <<>>, "")
SquatNote == Row(Morning, "Morning", 3600, "Squat", "Note", <<>>, <<>>, <<>>, <<>>, "heavy")
RowSet == Row(Morning, "Morning", 3600, "Row", "1", <<0>>, <<500>>, <<>>, <<>>, "")
RestTimer == Row(Morning, "Morning", 3600, "Squat", "Rest Timer", <<>>, <<>>, <<>>, <<90>>, "")
EveningSquat == Row(Evening, "Evening", 1800, "Squat", "1", <<400>>, <<5>>, <<>>, <<>>, "")
NextDaySquat == Row(NextDay, "Next", 1800, "Squat", "1", <<>>, <<8>>, <<>>, <<>>, "")

\* the exports the synchronisation is run on: no workout; one workout with
\* one set; one with only a note; one with two exercises and a note; two
\* workouts of one calendar day and two of different days that share an
\* exercise; rest timers and interleaved dates
CsvFiles ==
    {<<>>,
     <<SquatSet>>,
     <<SquatNote>>,
     <<SquatSet, SquatNote, RowSet>>,
     <<SquatSet, EveningSquat>>,
     <<SquatSet, NextDaySquat>>,
     <<EveningSquat, RowSet, SquatSet>>,
     <<RestTimer, SquatSet, NextDaySquat, RowSet>>}

Config(csv_arg, csv_env, token, database_id, exercise_env, parent_page) ==
    [csv_arg |-> csv_arg, csv_env |-> csv_env, notion_token |-> token,
     database_id |-> database_id, exercise_db_env |-> exercise_env,
     parent_is_page |-> parent_page]

Configs ==
    {Config(TRUE, FALSE, TRUE, TRUE, TRUE, TRUE),
     Config(FALSE, TRUE, TRUE, TRUE, FALSE, TRUE),
     Config(FALSE, TRUE, TRUE, TRUE, FALSE, FALSE),
     Config(FALSE, FALSE, TRUE, TRUE, TRUE, TRUE),
     Config(TRUE, FALSE, FALSE, TRUE, TRUE, TRUE),
     Config(TRUE, TRUE, TRUE, FALSE, TRUE, TRUE)}

\* a page of the Morning workout left by an earlier synchronisation, with n
\* blocks of content that the current file does not produce
old_page(n) ==
    [title |-> "Morning",
     date |-> [start |-> Morning, end |-> Morning],
     activity_type |-> "Strength",
     duration_min |-> 0,
     garmin_id |-> {strong_id(Morning)},
     children |-> [k \in 1..n |->
                     [id |-> k, block |-> [type |-> "paragraph", text |-> "old",
                                           italic |-> FALSE]]]]

InitialPages == {<<>>} \cup {<<old_page(n)>> : n \in 0..MaxOldBlocks}

NoProps == [Exercise |-> ""]
NoListing == [results |-> <<>>, has_more |-> FALSE, next_cursor |-> 0]
NoCall == [api |-> "", result |-> ""]
NoLog ==
    [prev_plain_done |-> FALSE, query_raised |-> FALSE, creates |-> 0, raised_at |-> "",
     old_children |-> <<>>, deleted |-> 0,
     first_rows |-> [set |-> FALSE, rows |-> {}]]

InitProcess ==
    /\ pc = "idle"
    /\ rebuild = FALSE
    /\ exercise_db_id = ""
    /\ workouts = <<>>
    /\ wi = 0
    /\ existing = 0
    /\ page = 0
    /\ listing = NoListing
    /\ gi = 0
    /\ properties = NoProps
    /\ existing_entry = 0
    /\ created = 0
    /\ updated = 0
    /\ skipped = 0
    /\ exit_status = -1
    /\ printed = ""
    /\ last_call = NoCall
    /\ run_log = NoLog

Init ==
    /\ cfg \in Configs
    /\ csv_rows \in CsvFiles
    /\ pages \in InitialPages
    /\ entries = <<>>
    /\ faults = MaxFaults
    /\ InitProcess

-----------------------------------------------------------------------------
(* Control flow of main's loop *)

Ctl(p, w, g, props, status, msg) ==
    [pc |-> p, wi |-> w, gi |-> g, properties |-> props,
     exit_status |-> status, printed |-> msg]

Go(c) ==
    /\ pc' = c.pc
    /\ wi' = c.wi
    /\ gi' = c.gi
    /\ properties' = c.properties
    /\ exit_status' = c.exit_status
    /\ printed' = c.printed

\* the next iteration of `for date, workout in workouts.items()`, or the
\* end of main: the "Done" line and a normal exit
advance(ws, i, msg) ==
    IF i < Len(ws)
    THEN Ctl("workout_exists", i + 1, 0, NoProps, -1, msg)
    ELSE Ctl("done", i, 0, NoProps, 0, "Done")

\* sync_exercise_entries from group index `from` on: the next group with sets
\* has its properties computed and is looked up; none left ends the call
sync_from(ws, i, from, msg) ==
    LET groups == group_exercises(ws[i].exercises)
        g == next_group(groups, from)
    IN IF g # 0
       THEN Ctl("exercise_entry_exists", i, g,
                entry_properties(ws[i], groups[g]), -1, msg)
       ELSE advance(ws, i, msg)

\* `if exercise_db_id: sync_exercise_entries(...)` after the branch
after_branch(ws, i, db, msg) ==
    IF db # "" THEN sync_from(ws, i, 1, msg) ELSE advance(ws, i, msg)

\* the first complete run with an exercise database records its rows
log_done(c, db, es, log) ==
    IF c.pc = "done" /\ db # "" /\ ~log.first_rows.set
    THEN [log EXCEPT !.first_rows = [set |-> TRUE, rows |-> Range(es)]]
    ELSE log

\* an exception nothing catches: the process dies with a traceback and exit
\* status 1
Abort(api, result) ==
    /\ pc' = "aborted"
    /\ exit_status' = 1
    /\ printed' = "Traceback"
    /\ last_call' = [api |-> api, result |-> result]
    /\ run_log' = [run_log EXCEPT !.raised_at = pc]
    /\ UNCHANGED <<cfg, csv_rows, pages, entries, rebuild, exercise_db_id,
                   workouts, wi, existing, page, listing, gi, properties,
                   existing_entry, created, updated, skipped>>

\* a remote call fails (network, rate limit, server error) and raises
Raise(api) ==
    /\ faults > 0
    /\ faults' = faults - 1
    /\ Abort(api, "raised")

Called(api) == last_call' = [api |-> api, result |-> "ok"]

-----------------------------------------------------------------------------
(* main: arguments and configuration *)

main_start ==
    /\ pc \in {"idle", "done", "aborted", "exited"}
    /\ \E flag \in BOOLEAN : rebuild' = flag
    /\ exercise_db_id' = ""
    /\ workouts' = <<>>
    /\ wi' = 0
    /\ existing' = 0
    /\ page' = 0
    /\ listing' = NoListing
    /\ gi' = 0
    /\ properties' = NoProps
    /\ existing_entry' = 0
    /\ created' = 0
    /\ updated' = 0
    /\ skipped' = 0
    /\ last_call' = NoCall
    /\ run_log' = [NoLog EXCEPT !.prev_plain_done = (pc = "done" /\ ~rebuild),
                               !.first_rows = run_log.first_rows]
    /\ IF ~(cfg.csv_arg \/ cfg.csv_env)
       THEN /\ printed' = "Error: Provide CSV path"
            /\ pc' = "exited"
            /\ exit_status' = 0
       ELSE IF ~cfg.notion_token \/ ~cfg.database_id
       THEN /\ printed' = "Error: NOTION_TOKEN and NOTION_DB_ID required"
            /\ pc' = "exited"
            /\ exit_status' = 0
       ELSE /\ printed' = ""
            /\ pc' = "get_or_create_exercise_db"
            /\ exit_status' = -1
    /\ UNCHANGED <<cfg, csv_rows, pages, entries, faults>>

-----------------------------------------------------------------------------
(* get_or_create_exercise_db *)

exercise_db_from_env ==
    /\ pc = "get_or_create_exercise_db"
    /\ cfg.exercise_db_env
    /\ exercise_db_id' = "env"
    /\ pc' = "parse_csv"
    /\ UNCHANGED <<cfg, csv_rows, pages, entries, faults, rebuild, workouts,
                   wi, existing, page, listing, gi, properties, existing_entry,
                   created, updated, skipped, exit_status, printed, last_call,
                   run_log>>

databases_retrieve ==
    /\ pc = "get_or_create_exercise_db"
    /\ ~cfg.exercise_db_env
    /\ \/ /\ Called("databases.retrieve")
          /\ IF cfg.parent_is_page
             THEN /\ pc' = "databases_create"
                  /\ printed' = printed
             ELSE /\ pc' = "parse_csv"
                  /\ printed' = "Cannot auto-create exercise database"
          /\ UNCHANGED <<cfg, csv_rows, pages, entries, faults, rebuild,
                         exercise_db_id, workouts, wi, existing, page, listing,
                         gi, properties, existing_entry, created, updated,
                         skipped, exit_status, run_log>>
       \/ Raise("databases.retrieve")

\* the database created is a new, empty one: `entries` is from now on the
\* rows of that database
databases_create ==
    /\ pc = "databases_create"
    /\ \/ /\ Called("databases.create")
          /\ entries' = <<>>
          /\ exercise_db_id' = "auto"
          /\ printed' = "Created 'Exercise Progress' database"
          /\ pc' = "parse_csv"
          /\ UNCHANGED <<cfg, csv_rows, pages, faults, rebuild, workouts, wi,
                         existing, page, listing, gi, properties,
                         existing_entry, created, updated, skipped,
                         exit_status, run_log>>
       \/ Raise("databases.create")

-----------------------------------------------------------------------------
(* main: parse the file and enter the loop *)

main_parse_csv ==
    /\ pc = "parse_csv"
    /\ workouts' = parse_csv(csv_rows)
    /\ created' = 0
    /\ updated' = 0
    /\ skipped' = 0
    /\ Go(advance(workouts', 0, "Found workouts in CSV"))
    /\ run_log' = log_done(advance(workouts', 0, ""), exercise_db_id, entries,
                           run_log)
    /\ UNCHANGED <<cfg, csv_rows, pages, entries, faults, rebuild,
                   exercise_db_id, existing, page, listing, existing_entry,
                   last_call>>

-----------------------------------------------------------------------------
(* workout_exists and the branch of main's loop *)

\* the loop's branch with `if existing:` never taken
branch_always_creates(result, raised) ==
    /\ Go(Ctl("pages_create", wi, 0, NoProps, -1, printed))
    /\ skipped' = skipped
    /\ run_log' = [run_log EXCEPT !.query_raised = @ \/ raised]

branch(result, raised) ==
    LET log == [run_log EXCEPT !.query_raised = @ \/ raised]
        msg == IF raised THEN "Error checking for existing workout" ELSE printed
    IN IF result # 0 /\ rebuild
       THEN /\ Go(Ctl("pages_update", wi, 0, NoProps, -1, msg))
            /\ skipped' = skipped
            /\ run_log' = log
       ELSE IF result # 0
       THEN /\ Go(after_branch(workouts, wi, exercise_db_id, "Skipped"))
            /\ skipped' = skipped + 1
            /\ run_log' = log_done(after_branch(workouts, wi, exercise_db_id, ""),
                                   exercise_db_id, entries, log)
       ELSE /\ Go(Ctl("pages_create", wi, 0, NoProps, -1, msg))
            /\ skipped' = skipped
            /\ run_log' = log

\* the query answers: results[0], in whatever order the remote store lists
\* the matching pages, or None
workout_exists_found ==
    /\ Called("databases.query")
    /\ LET found == query_workouts(pages, workouts[wi].date)
       IN \E result \in (IF found = {} THEN {0} ELSE found) :
              /\ existing' = result
              /\ branch(result, FALSE)
    /\ faults' = faults

\* workout_exists without its try/except: the exception ends the process
workout_exists_uncaught ==
    /\ faults > 0
    /\ faults' = faults - 1
    /\ last_call' = [api |-> "databases.query", result |-> "raised"]
    /\ existing' = existing
    /\ Go(Ctl("aborted", wi, gi, properties, 1, "Traceback"))
    /\ skipped' = skipped
    /\ run_log' = [run_log EXCEPT !.raised_at = pc]

\* the query raises: the exception is caught and printed, None is returned
workout_exists_raised ==
    /\ faults > 0
    /\ faults' = faults - 1
    /\ last_call' = [api |-> "databases.query", result |-> "raised"]
    /\ existing' = 0
    /\ branch(0, TRUE)

workout_exists ==
    /\ pc = "workout_exists"
    /\ \/ workout_exists_found
       \/ workout_exists_raised
    /\ UNCHANGED <<cfg, csv_rows, pages, entries, rebuild, exercise_db_id,
                   workouts, page, listing, existing_entry, created, updated>>

-----------------------------------------------------------------------------
(* create_workout_page *)

pages_create ==
    /\ pc = "pages_create"
    /\ \/ /\ Called("pages.create")
          /\ pages' = Append(pages, new_page(workouts[wi]))
          /\ page' = Len(pages) + 1
          /\ pc' = "create_append"
          /\ run_log' = [run_log EXCEPT !.creates = @ + 1]
          /\ UNCHANGED <<cfg, csv_rows, entries, faults, rebuild,
                         exercise_db_id, workouts, wi, existing, listing, gi,
                         properties, existing_entry, created, updated, skipped,
                         exit_status, printed>>
       \/ Raise("pages.create")

create_append ==
    /\ pc = "create_append"
    /\ \/ /\ Called("blocks.children.append")
          /\ pages' = [pages EXCEPT ![page].children =
                         append_children(@, build_page_content(workouts[wi].exercises))]
          /\ created' = created + 1
          /\ Go(after_branch(workouts, wi, exercise_db_id, "Created"))
          /\ run_log' = log_done(after_branch(workouts, wi, exercise_db_id, ""),
                                 exercise_db_id, entries, run_log)
          /\ UNCHANGED <<cfg, csv_rows, entries, faults, rebuild,
                         exercise_db_id, workouts, existing, page, listing,
                         existing_entry, updated, skipped>>
       \/ Raise("blocks.children.append")

-----------------------------------------------------------------------------
(* update_workout and replace_page_content *)

pages_update ==
    /\ pc = "pages_update"
    /\ \/ /\ Called("pages.update")
          /\ pages' = [pages EXCEPT ![existing].date =
                         make_workout_dates(workouts[wi])]
          /\ pc' = "replace_list"
          /\ listing' = NoListing
          /\ run_log' = [run_log EXCEPT !.old_children = pages[existing].children,
                                        !.deleted = 0]
          /\ UNCHANGED <<cfg, csv_rows, entries, faults, rebuild,
                         exercise_db_id, workouts, wi, existing, page, gi,
                         properties, existing_entry, created, updated, skipped,
                         exit_status, printed>>
       \/ Raise("pages.update")

\* replace_page_content without its `while existing.get("has_more")` loop
replace_pc_first_page(l) ==
    IF l.results # <<>> THEN "replace_delete" ELSE "replace_append"

\* where replace_page_content goes with list response l: delete the next
\* listed block, fetch the next page while has_more, else append
replace_pc(l) ==
    IF l.results # <<>> THEN "replace_delete"
    ELSE IF l.has_more THEN "replace_list"
    ELSE "replace_append"

replace_list ==
    /\ pc = "replace_list"
    /\ \/ /\ Called("blocks.children.list")
          /\ listing' = list_children(pages[existing].children,
                                      listing.next_cursor)
          /\ pc' = replace_pc(listing')
          /\ UNCHANGED <<cfg, csv_rows, pages, entries, faults, rebuild,
                         exercise_db_id, workouts, wi, existing, page, gi,
                         properties, existing_entry, created, updated, skipped,
                         exit_status, printed, run_log>>
       \/ Raise("blocks.children.list")

replace_delete ==
    /\ pc = "replace_delete"
    /\ \/ /\ Called("blocks.delete")
          /\ pages' = [pages EXCEPT ![existing].children =
                         delete_block(@, Head(listing.results))]
          /\ listing' = [listing EXCEPT !.results = Tail(@)]
          /\ pc' = replace_pc(listing')
          /\ run_log' = [run_log EXCEPT !.deleted = @ + 1]
          /\ UNCHANGED <<cfg, csv_rows, entries, faults, rebuild,
                         exercise_db_id, workouts, wi, existing, page, gi,
                         properties, existing_entry, created, updated, skipped,
                         exit_status, printed>>
       \/ Raise("blocks.delete")

replace_append ==
    /\ pc = "replace_append"
    /\ \/ /\ Called("blocks.children.append")
          /\ pages' = [pages EXCEPT ![existing].children =
                         append_children(@, build_page_content(workouts[wi].exercises))]
          /\ updated' = updated + 1
          /\ Go(after_branch(workouts, wi, exercise_db_id, "Rebuilt"))
          /\ run_log' = log_done(after_branch(workouts, wi, exercise_db_id, ""),
                                 exercise_db_id, entries, run_log)
          /\ UNCHANGED <<cfg, csv_rows, entries, faults, rebuild,
                         exercise_db_id, workouts, existing, page, listing,
                         existing_entry, created, skipped>>
       \/ Raise("blocks.children.append")

-----------------------------------------------------------------------------
(* sync_exercise_entries: look the row up, then update or create it *)

\* the properties get_or_create_exercise_db gives the database it creates
ExerciseDbSchema ==
    {"Exercise", "Date", "Max Weight (kg)", "Total Volume (kg)", "Sets",
     "Total Reps", "Workout"}

\* the properties sync_exercise_entries writes
EntryPropertyNames ==
    {"Exercise", "Date", "Max Weight", "Total Volumn", "Sets", "Total Reps",
     "Workouts"}

\* the schema of the exercise database: the created one has the schema it
\* was created with; the one NOTION_EXERCISE_DB_ID names was made by hand and
\* is taken to have the properties the code writes
schema_of(db) == IF db = "auto" THEN ExerciseDbSchema ELSE EntryPropertyNames

exercise_entry_exists ==
    /\ pc = "exercise_entry_exists"
    /\ \/ /\ Called("databases.query")
          /\ LET found == query_entries(entries,
                              DateOnly(make_workout_dates(workouts[wi]).start),
                              properties.Exercise)
             IN \E result \in (IF found = {} THEN {0} ELSE found) :
                    existing_entry' = result
          /\ pc' = "entry_write"
          /\ UNCHANGED <<cfg, csv_rows, pages, entries, faults, rebuild,
                         exercise_db_id, workouts, wi, existing, page, listing,
                         gi, properties, created, updated, skipped,
                         exit_status, printed, run_log>>
       \/ Raise("databases.query")

entry_api == IF existing_entry # 0 THEN "pages.update" ELSE "pages.create"

\* the row written: every property of it is in `properties`, so an update
\* replaces the row's values
write_entry(es, e, props) ==
    IF e # 0 THEN [es EXCEPT ![e] = props] ELSE Append(es, props)

entry_write ==
    /\ pc = "entry_write"
    /\ \/ /\ EntryPropertyNames \subseteq schema_of(exercise_db_id)
          /\ Called(entry_api)
          /\ entries' = write_entry(entries, existing_entry, properties)
          /\ Go(sync_from(workouts, wi, gi + 1, printed))
          /\ run_log' = log_done(sync_from(workouts, wi, gi + 1, ""),
                                 exercise_db_id, entries', run_log)
          /\ UNCHANGED <<cfg, csv_rows, pages, faults, rebuild,
                         exercise_db_id, workouts, existing, page, listing,
                         existing_entry, created, updated, skipped>>
       \/ \* the remote store rejects a property its schema does not have
          /\ ~(EntryPropertyNames \subseteq schema_of(exercise_db_id))
          /\ faults' = faults
          /\ Abort(entry_api, "rejected")
       \/ Raise(entry_api)

-----------------------------------------------------------------------------
(* The synchronisation: any number of processes, one after the other *)

Next ==
    \/ main_start
    \/ exercise_db_from_env
    \/ databases_retrieve
    \/ databases_create
    \/ main_parse_csv
    \/ workout_exists
    \/ pages_create
    \/ create_append
    \/ pages_update
    \/ replace_list
    \/ replace_delete
    \/ replace_append
    \/ exercise_entry_exists
    \/ entry_write

Spec == Init /\ [][Next]_vars

-----------------------------------------------------------------------------
(* parse_csv and the statistics of sync_exercise_entries on their own, over *)
(* every short file of two families of rows                                *)

\* rows that differ in date, workout name and duration, exercise, and in
\* being a rest timer
ParseRows ==
    {Row(d, n[1], n[2], e, o, <<4>>, <<1>>, <<>>, <<>>, "") :
        d \in {Morning, Evening}, n \in {<<"A", 60>>, <<"B", 120>>},
        e \in {"Squat", "Row"}, o \in {"1", "Note", "Rest Timer"}}

\* rows of one workout that differ in exercise, weight and reps, and notes
AggRows ==
    {Row(Morning, "A", 60, e, "1", w, r, <<>>, <<>>, "") :
        e \in {"Squat", "Row"}, w \in {<<>>, <<0>>, <<245>>, <<247>>},
        r \in {<<>>, <<3>>, <<480>>, <<500>>}}
    \cup {Row(Morning, "A", 60, e, "Note", <<245>>, <<3>>, <<>>, <<>>, "n") :
        e \in {"Squat", "Row"}}

PureFiles == SeqsUpTo(ParseRows, MaxParseRows) \cup SeqsUpTo(AggRows, MaxAggRows)

PureInit ==
    /\ cfg = Config(TRUE, FALSE, TRUE, TRUE, TRUE, TRUE)
    /\ csv_rows \in PureFiles
    /\ pages = <<>>
    /\ entries = <<>>
    /\ faults = 0
    /\ InitProcess

\* the properties sync_exercise_entries writes for a workout, one per group
\* with sets, from group index `from` on
RECURSIVE written_entries(_, _, _)
written_entries(workout, groups, from) ==
    LET g == next_group(groups, from)
    IN IF g = 0 THEN <<>>
       ELSE <<entry_properties(workout, groups[g])>>
            \o written_entries(workout, groups, g + 1)

apply_parse_csv ==
    /\ pc = "idle"
    /\ workouts' = parse_csv(csv_rows)
    /\ pc' = "parsed"
    /\ UNCHANGED <<cfg, csv_rows, pages, entries, faults, rebuild,
                   exercise_db_id, wi, existing, page, listing, gi, properties,
                   existing_entry, created, updated, skipped, exit_status,
                   printed, last_call, run_log>>

\* sync_exercise_entries on the next workout, against an empty database:
\* every entry is created
apply_sync_exercise_entries ==
    /\ pc = "parsed"
    /\ wi < Len(workouts)
    /\ wi' = wi + 1
    /\ entries' = entries \o written_entries(workouts[wi + 1],
                              group_exercises(workouts[wi + 1].exercises), 1)
    /\ UNCHANGED <<cfg, csv_rows, pages, faults, pc, rebuild, exercise_db_id,
                   workouts, existing, page, listing, gi, properties,
                   existing_entry, created, updated, skipped, exit_status,
                   printed, last_call, run_log>>

PureNext ==
    \/ apply_parse_csv
    \/ apply_sync_exercise_entries

PureSpec == PureInit /\ [][PureNext]_vars

-----------------------------------------------------------------------------
(* Properties of parse_csv and of the statistics (PureSpec) *)

KeptRows == {i \in 1..Len(csv_rows) : csv_rows[i].SetOrder # "Rest Timer"}

RowsOfDate(d) == {i \in KeptRows : csv_rows[i].Date = d}

FirstRowOf(d) == CHOOSE i \in RowsOfDate(d) : \A j \in RowsOfDate(d) : i <= j

\* the n-th smallest element of a set of row numbers
NthOf(S, n) == CHOOSE i \in S : Cardinality({j \in S : j < i}) = n - 1

SameFields(ex, row) ==
    /\ ex.exercise = row.ExerciseName
    /\ ex.set_order = row.SetOrder
    /\ ex.weight_kg = row.Weight
    /\ ex.reps = row.Reps
    /\ ex.distance_m = row.Distance
    /\ ex.seconds = row.Seconds
    /\ ex.notes = row.Notes

\* C7: parse_csv returns one workout per distinct Date among the rows that
\* are no rest timer, in the order in which the dates first occur; each takes
\* its name and duration from the first such row of its date, and its
\* exercises are exactly the such rows of its date, in file order.
C7_ParseCsvGrouping ==
    pc = "parsed" =>
      /\ Len(workouts) = Cardinality({csv_rows[i].Date : i \in KeptRows})
      /\ \A k \in 1..Len(workouts) :
           LET w == workouts[k]
               S == RowsOfDate(w.date)
           IN /\ S # {}
              /\ w.name = csv_rows[FirstRowOf(w.date)].WorkoutName
              /\ w.duration_sec = csv_rows[FirstRowOf(w.date)].Duration
              /\ Len(w.exercises) = Cardinality(S)
              /\ \A n \in 1..Len(w.exercises) :
                   SameFields(w.exercises[n], csv_rows[NthOf(S, n)])
              /\ \A l \in 1..Len(workouts) :
                   k < l => FirstRowOf(w.date) < FirstRowOf(workouts[l].date)

\* a file whose first row is a rest timer of another workout name and whose
\* dates are interleaved has been parsed into two workouts
C7_Witness ==
    /\ pc = "parsed"
    /\ Len(csv_rows) = 3
    /\ csv_rows[1].SetOrder = "Rest Timer"
    /\ csv_rows[2].SetOrder # "Rest Timer"
    /\ csv_rows[3].SetOrder # "Rest Timer"
    /\ csv_rows[1].Date = csv_rows[3].Date
    /\ csv_rows[2].Date # csv_rows[3].Date
    /\ csv_rows[1].WorkoutName # csv_rows[3].WorkoutName
    /\ Len(workouts) = 2
    /\ workouts[1].date = csv_rows[2].Date

EntryRows(e) ==
    {i \in 1..Len(csv_rows) : /\ csv_rows[i].Date = e.Date
                              /\ csv_rows[i].ExerciseName = e.Exercise
                              /\ csv_rows[i].SetOrder \notin {"Note", "Rest Timer"}}

RowWeight(i) == IF csv_rows[i].Weight = <<>> THEN 0 ELSE csv_rows[i].Weight[1]

RowReps(i) == IF csv_rows[i].Reps = <<>> THEN 0 ELSE csv_rows[i].Reps[1]

RECURSIVE SumReps(_)
SumReps(S) ==
    IF S = {} THEN 0
    ELSE LET i == CHOOSE i \in S : TRUE IN RowReps(i) + SumReps(S \ {i})

\* the sum of weight x reps, in quarters of a kilogram
RECURSIVE SumVolume(_)
SumVolume(S) ==
    IF S = {} THEN 0
    ELSE LET i == CHOOSE i \in S : TRUE
         IN RowWeight(i) * RowReps(i) + SumVolume(S \ {i})

\* tenths is volume (in quarters of a kilogram) rounded to one decimal place,
\* a tie going to the even digit
RoundedToTenth(tenths, volume) ==
    /\ 2 * tenths - 5 * volume \in {-1, 0, 1}
    /\ 2 * tenths # 5 * volume => tenths % 2 = 0

EntryCounts(e) ==
    LET S == EntryRows(e)
    IN /\ S # {}
       /\ e.Sets = Cardinality(S)
       /\ \A i \in S : RowWeight(i) <= e.MaxWeight
       /\ \E i \in S : RowWeight(i) = e.MaxWeight
       /\ e.TotalReps = SumReps(S)

EveryGroupWritten ==
    (pc = "parsed" /\ wi = Len(workouts)) =>
      /\ \A i \in 1..Len(csv_rows) :
           csv_rows[i].SetOrder \notin {"Note", "Rest Timer"} =>
             \E k \in 1..Len(entries) : i \in EntryRows(entries[k])
      /\ \A k, l \in 1..Len(entries) :
           k # l => EntryRows(entries[k]) # EntryRows(entries[l])

\* C6 as stated: every group with a row that is no Note gets an entry, with
\* the maximum weight, the count and the sum of reps of those rows and, as
\* total volume, exactly the sum of weight x reps; other groups get none.
C6_VolumeIsExactSum ==
    /\ \A k \in 1..Len(entries) :
         /\ EntryCounts(entries[k])
         /\ 2 * entries[k].TotalVolume = 5 * SumVolume(EntryRows(entries[k]))
    /\ EveryGroupWritten

\* C6, amended: as C6, with the total volume being the sum of weight x reps
\* rounded to one decimal place, a tie going to the even digit.
C6_EntryValues ==
    /\ \A k \in 1..Len(entries) :
         /\ EntryCounts(entries[k])
         /\ RoundedToTenth(entries[k].TotalVolume,
                           SumVolume(EntryRows(entries[k])))
    /\ EveryGroupWritten

\* an entry of two sets whose volume is no multiple of a tenth of a kilogram
\* has been written, beside a note of the same exercise
C6_Witness ==
    /\ pc = "parsed"
    /\ wi = Len(workouts)
    /\ \E k \in 1..Len(entries) :
         /\ Cardinality(EntryRows(entries[k])) >= 1
         /\ 2 * entries[k].TotalVolume # 5 * SumVolume(EntryRows(entries[k]))
         /\ \E i \in 1..Len(csv_rows) :
              /\ csv_rows[i].SetOrder = "Note"
              /\ csv_rows[i].ExerciseName = entries[k].Exercise

-----------------------------------------------------------------------------
(* Properties of the synchronisation (Spec) *)

Ended == pc \in {"done", "aborted", "exited"}

ConfigMissing ==
    \/ ~(cfg.csv_arg \/ cfg.csv_env)
    \/ ~cfg.notion_token
    \/ ~cfg.database_id

\* C3: with the input path, the token or the activities database id missing,
\* main prints a message, makes no remote call, and the process exits with a
\* status that is not zero.
C3_ConfigErrorExitsNonZero ==
    (ConfigMissing /\ pc # "idle") =>
      /\ pc = "exited"
      /\ printed \in {"Error: Provide CSV path",
                      "Error: NOTION_TOKEN and NOTION_DB_ID required"}
      /\ last_call = NoCall
      /\ exit_status # 0

C2_RebuildReplacesContent ==
    [][(pc = "replace_append" /\ pc' \notin {"replace_append", "aborted"}) =>
         Blocks(pages'[existing].children) =
           build_page_content(workouts[wi].exercises)]_vars

\* a page whose old content spanned more than one list page has been rebuilt
C2_Witness ==
    /\ rebuild
    /\ updated >= 1
    /\ last_call = [api |-> "blocks.children.append", result |-> "ok"]
    /\ Len(run_log.old_children) > PageSize
    /\ run_log.deleted = Len(run_log.old_children)
    /\ \E k \in 1..Len(run_log.old_children) :
         run_log.old_children[k].block.text = "old"
    /\ Blocks(pages[existing].children) =
         build_page_content(workouts[wi].exercises)
    /\ Len(pages[existing].children) >= 2

GroupsWithSets(w) ==
    {g \in Range(group_exercises(w.exercises)) : g.sets # <<>>}

\* a process that met no failure of the remote store is over, with an
\* exercise database id
EndedUnfailed ==
    /\ exercise_db_id # ""
    /\ \/ pc = "done"
       \/ pc = "aborted" /\ last_call.result = "rejected"

\* C4: after a process with an exercise database id, every workout of the
\* file has been aggregated whatever branch it took, the rows are the same
\* set as after the first process, and every row holds the values computed
\* from one workout's rows alone.
C4_AggregationEveryWorkout ==
    EndedUnfailed =>
      /\ \A k \in 1..Len(workouts) : \A g \in GroupsWithSets(workouts[k]) :
           \E e \in 1..Len(entries) :
              /\ entries[e].Exercise = g.name
              /\ DateOnly(entries[e].Date) = DateOnly(workouts[k].date)
      /\ \A e \in 1..Len(entries) :
           \E k \in 1..Len(workouts) : \E g \in GroupsWithSets(workouts[k]) :
              entries[e] = entry_properties(workouts[k], g)
      /\ run_log.first_rows.set => Range(entries) = run_log.first_rows.rows

\* C5: after a complete process, every workout has, for each of its
\* exercises with sets, a row of its own holding its own statistics, also
\* when another workout of the same calendar day has the same exercise.
C5_RowPerWorkoutAndExercise ==
    (pc = "done" /\ exercise_db_id # "") =>
      \A k \in 1..Len(workouts) : \A g \in GroupsWithSets(workouts[k]) :
         \E e \in 1..Len(entries) :
            entries[e] = entry_properties(workouts[k], g)


\* C8: when the query of workout_exists raises, the process goes on with the
\* workout taken as absent: the next call creates a page carrying the
\* workout's stable id, whether or not such a page exists.
C8_QueryFailureCreates ==
    [][/\ (pc = "workout_exists" /\ faults' # faults) =>
            /\ pc' = "pages_create"
            /\ existing' = 0
            /\ exit_status' = -1
            /\ wi' = wi
            /\ pages' = pages
       /\ (pc = "pages_create" /\ pc' # pc) =>
            last_call'.api = "pages.create"
       /\ (pc = "pages_create" /\ pc' = "create_append") =>
            /\ pages' = Append(pages, pages'[Len(pages')])
            /\ strong_id(workouts[wi].date) \in pages'[Len(pages')].garmin_id
      ]_vars

\* a process in which the query raised is complete, both workouts of the
\* file processed, and two pages carry the same stable id
C8_Witness ==
    /\ pc = "done"
    /\ run_log.query_raised
    /\ Len(workouts) = 2
    /\ created + skipped + updated = 2
    /\ \E p, q \in 1..Len(pages) :
         p # q /\ pages[p].garmin_id = pages[q].garmin_id

RaisedInReplace ==
    /\ pc = "aborted"
    /\ run_log.raised_at \in {"replace_list", "replace_delete", "replace_append"}
    /\ run_log.deleted >= 1

\* C9: update_workout writes the date range first, then deletes the old
\* blocks one by one, then appends; when a call of replace_page_content
\* fails after a delete, the process is over with the deleted blocks gone,
\* the other old blocks left, no new block attached, and the page stays so
\* for the rest of the process.
C9_UpdateNotTransactional ==
    /\ [](RaisedInReplace =>
            /\ pages[existing].children =
                 SubSeq(run_log.old_children, run_log.deleted + 1,
                        Len(run_log.old_children))
            /\ Len(pages[existing].children) < Len(run_log.old_children)
            /\ pages[existing].date = make_workout_dates(workouts[wi]))
    /\ [][/\ pc \in {"replace_list", "replace_delete", "replace_append"} =>
               pages[existing].date = make_workout_dates(workouts[wi])
          /\ (pc = "replace_delete" /\ pc' \notin {pc, "aborted"}) =>
               Len(pages'[existing].children) = Len(pages[existing].children) - 1
          /\ (pc = "replace_append" /\ pc' \notin {pc, "aborted"}) =>
               pages[existing].children = <<>>
          /\ pc = "aborted" => pages' = pages
         ]_vars

\* a delete failed after an earlier one succeeded: the page is left with a
\* part of its old content
C9_Witness ==
    /\ RaisedInReplace
    /\ run_log.raised_at = "replace_delete"
    /\ pages[existing].children # <<>>

\* C10: a failed append of create_workout_page leaves a page that carries
\* the stable id and has no content; a process without the rebuild flag that
\* finds a page skips the workout, and changes the content of no page but
\* the one it has just created.
C10_EmptyPageStays ==
    [][/\ (pc = "create_append" /\ pc' = "aborted") =>
            /\ pages' = pages
            /\ pages[page].children = <<>>
            /\ page \in query_workouts(pages, workouts[wi].date)
       /\ (pc = "workout_exists" /\ ~rebuild /\ existing' # 0) =>
            /\ skipped' = skipped + 1
            /\ pages' = pages
            /\ pc' \notin {"pages_create", "pages_update"}
       /\ \A p \in 1..Len(pages) :
            (~rebuild /\ ~(pc = "create_append" /\ p = page)) =>
               pages'[p] = pages[p]
      ]_vars

\* a later process without the flag is complete and has skipped the workout
\* whose page, as created, still has no content
C10_Witness ==
    /\ pc = "done"
    /\ ~rebuild
    /\ skipped = Len(workouts)
    /\ existing # 0
    /\ pages[existing] = new_page(workouts[wi])
    /\ build_page_content(workouts[wi].exercises) # <<>>

====
